---- MODULE Spec2Model ----
(***************************************************************************)
(* agoraX_resume: chunk ingestion (POST /transcribe-chunk), the            *)
(* transcription client (transcribeBuffer) and session finalization        *)
(* (POST /finalize).                                                       *)
(*                                                                         *)
(* A request handler is an async function on one event loop: it runs       *)
(* without interruption up to its next `await`, so one action of the model *)
(* is the code between two awaits.  Synchronous calls (existsSync,         *)
(* mkdirSync, execFileSync) are part of the action that reaches them.      *)
(*                                                                         *)
(* Text is a sequence of one-character strings, so that the regular        *)
(* expressions and the startsWith / includes tests of the source are       *)
(* computed on characters.                                                 *)
(***************************************************************************)
EXTENDS Integers, Sequences, FiniteSets, TLC

VARIABLES
    env,        \* process.env / module constants read by the handlers
    fsTmp,      \* the files of the chunk request in flight that exist in the temporary directory
    dirExists,  \* [root -> BOOLEAN] : does candidate transcript directory exist
    store,      \* [root -> sequence of [name, text]] : the transcript files, in listing order
    clock,      \* milliseconds since the epoch, as read by new Date()
    nChunks,    \* chunk requests received so far
    nFinals,    \* finalize requests received so far
    chunk,      \* the /transcribe-chunk request in flight (locals of the handler)
    fin,        \* the /finalize request in flight (locals of the handler)
    hist        \* history of the previous finalize call (for relational claims)

vars == <<env, fsTmp, dirExists, store, clock, nChunks, nFinals, chunk, fin, hist>>

(***************************************************************************)
(* Bounds                                                                  *)
(***************************************************************************)
MaxChunks == 2
MaxFinals == 2

(***************************************************************************)
(* Strings                                                                 *)
(***************************************************************************)
None == <<>>                         \* an absent (or empty, hence falsy) query parameter

LowerChars == {"a","b","c","d","e","f","g","h","i","j","k","l","m","n","o","p","q","r","s","t","u","v","w","x","y","z"}
UpperChars == {"A","B","C","D","E","F","G","H","I","J","K","L","M","N","O","P","Q","R","S","T","U","V","W","X","Y","Z"}
DigitChars == {"0","1","2","3","4","5","6","7","8","9"}
LetterChars == LowerChars \cup UpperChars

\* String.prototype.toLowerCase on one character (the /i flag of a RegExp)
ToLowerChar(c) ==
    CASE c = "A" -> "a" [] c = "B" -> "b" [] c = "C" -> "c" [] c = "D" -> "d"
      [] c = "E" -> "e" [] c = "F" -> "f" [] c = "G" -> "g" [] c = "H" -> "h"
      [] c = "I" -> "i" [] c = "J" -> "j" [] c = "K" -> "k" [] c = "L" -> "l"
      [] c = "M" -> "m" [] c = "N" -> "n" [] c = "O" -> "o" [] c = "P" -> "p"
      [] c = "Q" -> "q" [] c = "R" -> "r" [] c = "S" -> "s" [] c = "T" -> "t"
      [] c = "U" -> "u" [] c = "V" -> "v" [] c = "W" -> "w" [] c = "X" -> "x"
      [] c = "Y" -> "y" [] c = "Z" -> "z" [] OTHER -> c

ToLower(s) == [i \in 1..Len(s) |-> ToLowerChar(s[i])]

\* does p occur in s at position i (1-based)
MatchAt(s, p, i) ==
    /\ i >= 1
    /\ i + Len(p) - 1 <= Len(s)
    /\ \A k \in 1..Len(p) : s[i + k - 1] = p[k]

\* String.prototype.startsWith
StartsWith(s, p) == MatchAt(s, p, 1)

\* /p/.test(s) for a literal pattern p
Contains(s, p) == \E i \in 1..(Len(s) + 1) : MatchAt(s, p, i)

\* /p/i.test(s) for a literal lower-case pattern p
ContainsI(s, p) == Contains(ToLower(s), p)

(***************************************************************************)
(* Paths of the temporary directory.  A path is the sequence of the        *)
(* dot-separated components of its base name: <<stem, "webm">> is          *)
(* "<tmpDir>/audio-<stem>.webm".                                           *)
(***************************************************************************)
NoPath == <<>>                        \* tempWavPath = null

\* path.extname(p).toLowerCase()
ExtName(p) == IF Len(p) >= 2 THEN p[Len(p)] ELSE ""

\* filePath + '.wav'
PreWavPath(filePath) == filePath \o <<"wav">>

\* filePath + '.retry.wav'
RetryWavPath(filePath) == filePath \o <<"retry", "wav">>

(***************************************************************************)
(* Transcript store: names and entries                                     *)
(***************************************************************************)
Roots == 1..3                         \* candidateDirs, in priority order

sTranscriptDash == <<"t","r","a","n","s","c","r","i","p","t","-">>
sDotTxt == <<".","t","x","t">>
sGlobal == <<"g","l","o","b","a","l">>
sUnknown == <<"u","n","k","n","o","w","n">>

\* String(roomId || 'global')
RoomOf(roomId) == IF roomId = None THEN sGlobal ELSE roomId

\* String(userId || 'unknown')
OwnerOf(userId) == IF userId = None THEN sUnknown ELSE userId

\* `transcript-${room}-${owner}.txt`
TranscriptFileName(room, owner) == sTranscriptDash \o room \o <<"-">> \o owner \o sDotTxt

\* `transcript-${room}-`
TranscriptPrefix(room) == sTranscriptDash \o room \o <<"-">>

\* new Date(ms).toISOString(), for 0 <= ms <= 9
ToISOString(ms) ==
    <<"1","9","7","0","-","0","1","-","0","1","T","0","0",":","0","0",":","0","0",".","0","0">>
        \o <<(<<"0","1","2","3","4","5","6","7","8","9">>)[ms + 1]>>
        \o <<"Z">>

\* `[${new Date().toISOString()}] ${who}: ${transcription}\n`
Entry(ms, who, transcription) ==
    <<"[">> \o ToISOString(ms) \o <<"]", " ">> \o who \o <<":", " ">> \o transcription \o <<"\n">>

(***************************************************************************)
(* A directory is the sequence of its files in the order in which readdir  *)
(* lists them.  The order is not specified, but it is stable: a new file   *)
(* takes any position and the other files keep theirs.                     *)
(***************************************************************************)
EmptyDir == <<>>

Names(dir) == {dir[i].name : i \in 1..Len(dir)}

\* the content of file f of the directory
TextOf(dir, f) == dir[CHOOSE i \in 1..Len(dir) : dir[i].name = f].text

\* fs.promises.appendFile(f, entry): the file is created when it is absent
\* (at position pos of the listing), else the entry is added at its end
AppendFileM(dir, f, entry, pos) ==
    IF f \in Names(dir)
    THEN [i \in 1..Len(dir) |-> IF dir[i].name = f THEN [dir[i] EXCEPT !.text = entry] ELSE dir[i]]
    ELSE SubSeq(dir, 1, pos - 1) \o <<[name |-> f, text |-> entry]>> \o SubSeq(dir, pos, Len(dir))
AppendFile(dir, f, entry, pos) ==
    IF f \in Names(dir)
    THEN [i \in 1..Len(dir) |-> IF dir[i].name = f THEN [dir[i] EXCEPT !.text = dir[i].text \o entry] ELSE dir[i]]
    ELSE SubSeq(dir, 1, pos - 1) \o <<[name |-> f, text |-> entry]>> \o SubSeq(dir, pos, Len(dir))

\* fs.promises.unlink(f)
Unlink(dir, f) == SelectSeq(dir, LAMBDA e : e.name # f)

\* the outcomes of a file-system call: it succeeds, or it fails when the
\* file system of the deployment is one that can fail
IoOk == IF env.FS_FAULTS THEN BOOLEAN ELSE {TRUE}

(***************************************************************************)
(* Speech-to-text provider: responses and inputs                           *)
(***************************************************************************)
MinChunkBytes == 4000                 \* buf.length < 4000
MaxAttempts == 2                      \* for (let attempt = 0; attempt < 2; attempt++)

NoBuf == 0 - 1                        \* req.body absent
BufSizes == {NoBuf, 0, MinChunkBytes - 1, MinChunkBytes}

sA == <<"a">>
sAB == <<"a","-","b">>
sU == <<"u">>
RoomIds == {sA, sAB}                  \* req.query.roomId, when given
UserIds == {sU}                       \* req.query.userId, when given

Email1 == <<"e","@","x",".","i","o">>  \* req.query.email, when given

sHi == <<"h","i">>
sMail1 == <<"m"," ","a","@","b",".","c","d">>
sNull == <<"n","u","l","l">>
Transcriptions == {sHi, sMail1}

sCouldNotProcess == <<"c","o","u","l","d"," ","n","o","t"," ","p","r","o","c","e","s","s"," ","f","i","l","e">>
sValidMedia == <<"i","s"," ","i","t"," ","a"," ","v","a","l","i","d"," ","m","e","d","i","a"," ","f","i","l","e">>

BodySignalA == <<"C","o","u","l","d"," ","n","o","t"," ","p","r","o","c","e","s","s"," ","f","i","l","e">>
BodySignalB == <<"I","s"," ","i","t"," ","a"," ","v","a","l","i","d"," ","m","e","d","i","a"," ","f","i","l","e","?">>
BodyOther == <<"r","a","t","e"," ","l","i","m","i","t">>
FailBodies == {BodySignalA, BodySignalB, BodyOther}

JsonNull == [null |-> TRUE]           \* res.json() threw: json stays null
OkJsons ==
    {[text |-> t] : t \in Transcriptions}
        \cup {[results |-> <<[text |-> t]>>] : t \in Transcriptions}
        \cup {[transcript |-> t] : t \in Transcriptions}
        \cup {JsonNull}

Responses ==
    {[kind |-> "throw"]}
        \cup {[kind |-> "fail", body |-> b] : b \in FailBodies}
        \cup {[kind |-> "ok", json |-> j] : j \in OkJsons}

\* /could not process file/i.test(text) || /is it a valid media file/i.test(text)
isCouldNotProcess(text) == ContainsI(text, sCouldNotProcess) \/ ContainsI(text, sValidMedia)

\* json?.text || json?.results?.[0]?.text || json?.transcript || JSON.stringify(json)
ExtractTranscript(json) ==
    IF "text" \in DOMAIN json /\ json.text # <<>> THEN json.text
    ELSE IF "results" \in DOMAIN json /\ Len(json.results) > 0 /\ json.results[1].text # <<>>
        THEN json.results[1].text
    ELSE IF "transcript" \in DOMAIN json /\ json.transcript # <<>> THEN json.transcript
    ELSE sNull

\* outcome of execFileSync(ffmpeg ...): "ok", or a failure that left no
\* output file ("fail") or a partial output file ("partial")
TcOutcomes == {"ok", "fail", "partial"}

(***************************************************************************)
(* POST /transcribe-chunk and transcribeBuffer                             *)
(***************************************************************************)
IdleChunk ==
    [pc |-> "idle", roomId |-> None, userId |-> None, email |-> None, buf |-> NoBuf,
     filePath |-> NoPath, status |-> 0,
     attempt |-> 0, attemptedTranscode |-> FALSE, tempWavPath |-> NoPath, sendPath |-> NoPath,
     transcript |-> <<>>, retried |-> FALSE, transcoded |-> FALSE,
     transcriptFile |-> <<>>, entry |-> <<>>, summary |-> FALSE,
     \* history of the call
     wrote |-> FALSE, called |-> FALSE, appended |-> FALSE,
     subs |-> <<>>, submissions |-> 0, transcodes |-> 0,
     created |-> {}, unlinked |-> {}, fellOut |-> FALSE, mailed |-> <<>>,
     preFailed |-> FALSE, retryFailed |-> FALSE, sent |-> <<>>,
     \* inside execFileSync: the state of the call when the transcoder exits
     exec |-> <<>>,
     \* the file-system calls of the request that failed
     ioFailed |-> {}]

\* catch (err) of the handler: res.status(500).json({ success: false, ... })
Respond500(q) == [q EXCEPT !.pc = "done", !.status = 500]

LoopNextM(q) ==
    IF q.attempt + 1 < MaxAttempts + 1
    THEN [q EXCEPT !.attempt = q.attempt + 1, !.pc = "tb_read"]
    ELSE [q EXCEPT !.attempt = q.attempt + 1, !.fellOut = TRUE, !.pc = "done", !.status = 500]

\* the loop header after an iteration ends without return or throw:
\* attempt++, then either the next buildMultipart(sendPath) or the
\* statement after the loop, throw new Error('Transcription failed after retries')
LoopNext(q) ==
    IF q.attempt + 1 < MaxAttempts
    THEN [q EXCEPT !.attempt = q.attempt + 1, !.pc = "tb_read"]
    ELSE Respond500([q EXCEPT !.attempt = q.attempt + 1, !.fellOut = TRUE])

TbCatchM(q) ==
    IF q.attempt = 1
    THEN IF q.tempWavPath # NoPath
         THEN [q EXCEPT !.pc = "tb_catch_unlink"]
         ELSE Respond500(q)
    ELSE LoopNext(q)

\* catch (err) of the attempt loop
TbCatch(q) ==
    IF q.attempt = 1 \/ q.attemptedTranscode
    THEN IF q.tempWavPath # NoPath
         THEN [q EXCEPT !.pc = "tb_catch_unlink"]
         ELSE Respond500(q)
    ELSE LoopNext(q)

TbEnterM(q, tc) ==
    LET q0 == [q EXCEPT !.called = TRUE, !.sendPath = q.filePath]
        wav == PreWavPath(q.filePath)
    IN  IF env.TRANSCODE_ON_SERVER /\ ExtName(q.filePath) \in {"webm", "ogg", "opus"}
        THEN IF ~env.ffmpegPath
             THEN [q0 EXCEPT !.tempWavPath = wav, !.preFailed = TRUE, !.pc = "tb_pre_unlink"]
             ELSE IF tc = "ok"
             THEN [q0 EXCEPT !.tempWavPath = wav, !.sendPath = wav, !.pc = "tb_read",
                             !.transcodes = q.transcodes + 1,
                             !.created = q.created \cup {wav}]
             ELSE [q0 EXCEPT !.tempWavPath = wav, !.preFailed = TRUE, !.pc = "tb_pre_unlink",
                             !.transcodes = q.transcodes + 1,
                             !.created = q.created \cup (IF tc = "partial" THEN {wav} ELSE {})]
        ELSE [q0 EXCEPT !.pc = "tb_read"]

\* transcribeBuffer up to its first await: key check, optional pre-transcode
TbEnter(q, tc) ==
    LET q0 == [q EXCEPT !.called = TRUE, !.sendPath = q.filePath]
        wav == PreWavPath(q.filePath)
    IN  IF ~env.GROQ_KEY THEN Respond500(q0)
        ELSE IF env.TRANSCODE_ON_SERVER /\ ExtName(q.filePath) \in {"webm", "ogg", "opus"}
        THEN IF ~env.ffmpegPath
             THEN [q0 EXCEPT !.tempWavPath = wav, !.preFailed = TRUE, !.pc = "tb_pre_unlink"]
             ELSE IF tc = "ok"
             THEN [q0 EXCEPT !.tempWavPath = wav, !.sendPath = wav, !.pc = "tb_read",
                             !.transcodes = q.transcodes + 1,
                             !.created = q.created \cup {wav}]
             ELSE [q0 EXCEPT !.tempWavPath = wav, !.preFailed = TRUE, !.pc = "tb_pre_unlink",
                             !.transcodes = q.transcodes + 1,
                             !.created = q.created \cup (IF tc = "partial" THEN {wav} ELSE {})]
        ELSE [q0 EXCEPT !.pc = "tb_read"]

\* the handler after transcribeBuffer returned: the entry is built and
\* fs.promises.appendFile is started
TbReturn(q, transcript) ==
    LET owner == OwnerOf(q.userId)
        room == RoomOf(q.roomId)
        who == IF q.userId # None THEN q.userId ELSE owner
    IN  [q EXCEPT !.transcript = transcript,
                  !.transcriptFile = TranscriptFileName(room, owner),
                  !.entry = Entry(clock, who, transcript),
                  !.pc = "append"]

TbNotOkM(q, text, tc) == [q EXCEPT !.pc = "tb_wait"]

\* a non-success response of the provider
TbNotOk(q, text, tc) ==
    IF isCouldNotProcess(text) /\ ~q.attemptedTranscode
    THEN LET q1 == [q EXCEPT !.attemptedTranscode = TRUE]
             wav == RetryWavPath(q.filePath)
         IN  IF ~env.ffmpegPath THEN TbCatch([q1 EXCEPT !.retryFailed = TRUE])
             ELSE IF tc = "ok"
             THEN LoopNext([q1 EXCEPT !.tempWavPath = wav, !.sendPath = wav,
                                      !.transcodes = q.transcodes + 1,
                                      !.created = q.created \cup {wav}])
             ELSE TbCatch([q1 EXCEPT !.tempWavPath = wav, !.retryFailed = TRUE,
                                     !.transcodes = q.transcodes + 1,
                                     !.created = q.created \cup (IF tc = "partial" THEN {wav} ELSE {})])
    ELSE TbCatch(q)

TbOkM(q, json) ==
    LET transcript == ExtractTranscript(json)
        q1 == [q EXCEPT !.transcoded = (q.tempWavPath # NoPath /\ ExtName(q.sendPath) = "wav"),
                        !.retried = FALSE]
    IN  IF q.tempWavPath # NoPath
        THEN [q1 EXCEPT !.transcript = transcript, !.pc = "tb_ok_unlink"]
        ELSE TbReturn(q1, transcript)

\* a success response of the provider
TbOk(q, json) ==
    LET transcript == ExtractTranscript(json)
        q1 == [q EXCEPT !.transcoded = (q.tempWavPath # NoPath /\ ExtName(q.sendPath) = "wav"),
                        !.retried = q.attemptedTranscode]
    IN  IF q.tempWavPath # NoPath
        THEN [q1 EXCEPT !.transcript = transcript, !.pc = "tb_ok_unlink"]
        ELSE TbReturn(q1, transcript)

\* what the step of a chunk request does to the temp directory, the
\* transcript directory and the clock, given the request before and after
ChunkEffects(q, q2) ==
    /\ fsTmp' = fsTmp \cup (q2.created \ q.created)
    /\ dirExists' = IF q2.pc = "append" THEN [dirExists EXCEPT ![1] = TRUE] ELSE dirExists
    /\ clock' = IF q2.pc = "append" THEN clock + 1 ELSE clock

\* if (!buf || buf.length < 4000)
TooSmallM(buf) == buf = NoBuf \/ buf < MinChunkBytes - 1
TooSmall(buf) == buf = NoBuf \/ buf < MinChunkBytes

\* the handler of POST /transcribe-chunk up to its first await, for a request
\* whose query parameters and body size are drawn from the given sets
ChunkReceiveFrom(roomIds, userIds, emails, bufs) ==
    /\ chunk.pc = "idle"
    /\ nChunks < MaxChunks
    /\ nChunks' = nChunks + 1
    /\ \E roomId \in roomIds, userId \in userIds, email \in emails, buf \in bufs :
         LET q == [IdleChunk EXCEPT !.roomId = roomId, !.userId = userId,
                                    !.email = email, !.buf = buf]
         IN  chunk' = IF TooSmall(buf)
                      THEN [q EXCEPT !.pc = "done", !.status = 400]
                      ELSE [q EXCEPT !.pc = "write", !.filePath = <<nChunks + 1, "webm">>]
    /\ UNCHANGED <<env, fsTmp, dirExists, store, clock, nFinals, fin, hist>>

\* execFileSync(ffmpegPath, [...]) is a synchronous call: a step that runs
\* the transcoder (the call goes from q to q2) stops inside it, and nothing
\* else runs in the process until the transcoder has exited
Exec(q, q2) ==
    IF q2.transcodes > q.transcodes
    THEN [q EXCEPT !.pc = "exec", !.exec = <<q2>>]
    ELSE q2

\* the event loop is inside a synchronous call
Blocked == chunk.pc = "exec"

\* await fs.promises.writeFile(filePath, buf), then transcribeBuffer(filePath)
\* up to its first await
ChunkWrite ==
    /\ chunk.pc = "write"
    /\ \E ok \in IoOk, tc \in TcOutcomes :
         LET q1 == [chunk EXCEPT !.wrote = TRUE]
             q2 == IF ok THEN Exec(q1, TbEnter(q1, tc))
                   ELSE Respond500([chunk EXCEPT !.ioFailed = chunk.ioFailed \cup {"write"}])
         IN  /\ chunk' = q2
             /\ fsTmp' = fsTmp \cup (IF ok THEN {chunk.filePath} ELSE {}) \cup (q2.created \ chunk.created)
             /\ UNCHANGED <<dirExists, clock>>
    /\ UNCHANGED <<env, store, nChunks, nFinals, fin, hist>>

\* catch of the pre-transcode: await fs.promises.unlink(tempWavPath); tempWavPath = null
TbPreUnlink ==
    /\ chunk.pc = "tb_pre_unlink"
    /\ \E ok \in IoOk :
         /\ fsTmp' = IF ok THEN fsTmp \ {chunk.tempWavPath} ELSE fsTmp
         /\ chunk' = [chunk EXCEPT !.unlinked = chunk.unlinked \cup {chunk.tempWavPath},
                                   !.tempWavPath = NoPath, !.pc = "tb_read"]
    /\ UNCHANGED <<env, dirExists, store, clock, nChunks, nFinals, fin, hist>>

\* buildMultipart: await fs.promises.readFile(sendFilePath); on success the
\* request is built and fetch(url, ...) is started
TbRead ==
    /\ chunk.pc = "tb_read"
    /\ \E ok \in IoOk :
         LET q2 == IF ok /\ chunk.sendPath \in fsTmp
                   THEN [chunk EXCEPT !.submissions = chunk.submissions + 1,
                                      !.sent = Append(chunk.sent, chunk.sendPath), !.pc = "tb_fetch"]
                   ELSE TbCatch([chunk EXCEPT !.ioFailed = chunk.ioFailed \cup {"read"}])
         IN  /\ chunk' = q2
             /\ ChunkEffects(chunk, q2)
    /\ UNCHANGED <<env, store, nChunks, nFinals, fin, hist>>

\* await fetch(url, ...) and the reading of the response body
TbFetchFrom(responses) ==
    /\ chunk.pc = "tb_fetch"
    /\ \E resp \in responses, tc \in TcOutcomes :
         LET out == IF resp.kind = "fail"
                    THEN (IF isCouldNotProcess(resp.body) THEN "signal" ELSE "other")
                    ELSE resp.kind
             q1 == [chunk EXCEPT !.subs = Append(chunk.subs, out)]
             q2 == CASE resp.kind = "throw" -> TbCatch(q1)
                      [] resp.kind = "fail" -> Exec(q1, TbNotOk(q1, resp.body, tc))
                      [] resp.kind = "ok" -> TbOk(q1, resp.json)
         IN  /\ chunk' = q2
             /\ ChunkEffects(chunk, q2)
    /\ UNCHANGED <<env, store, nChunks, nFinals, fin, hist>>

\* the transcoder exits and execFileSync returns or throws; the call runs on
\* to its next await
ExecFileSync ==
    /\ chunk.pc = "exec"
    /\ chunk' = chunk.exec[1]
    /\ ChunkEffects(chunk, chunk')
    /\ UNCHANGED <<env, store, nChunks, nFinals, fin, hist>>

\* success path: await fs.promises.unlink(tempWavPath), then return
TbOkUnlink ==
    /\ chunk.pc = "tb_ok_unlink"
    /\ \E ok \in IoOk :
         LET q1 == [chunk EXCEPT !.unlinked = chunk.unlinked \cup {chunk.tempWavPath}]
             q2 == TbReturn(q1, chunk.transcript)
         IN  /\ chunk' = q2
             /\ fsTmp' = IF ok THEN fsTmp \ {chunk.tempWavPath} ELSE fsTmp
             /\ dirExists' = [dirExists EXCEPT ![1] = TRUE]
             /\ clock' = clock + 1
    /\ UNCHANGED <<env, store, nChunks, nFinals, fin, hist>>

\* failure path: await fs.promises.unlink(tempWavPath), then throw err
TbCatchUnlink ==
    /\ chunk.pc = "tb_catch_unlink"
    /\ \E ok \in IoOk :
         /\ fsTmp' = IF ok THEN fsTmp \ {chunk.tempWavPath} ELSE fsTmp
         /\ chunk' = Respond500([chunk EXCEPT !.unlinked = chunk.unlinked \cup {chunk.tempWavPath}])
    /\ UNCHANGED <<env, dirExists, store, clock, nChunks, nFinals, fin, hist>>

\* the handler after the append: catch (e) { console.warn(...) } when it
\* failed, then the optional summary
AfterAppendM(q, ok) ==
    IF ok
    THEN [q EXCEPT !.appended = TRUE, !.pc = IF env.DEEPSEEK THEN "summary" ELSE "unlink"]
    ELSE Respond500([q EXCEPT !.ioFailed = q.ioFailed \cup {"append"}])
AfterAppend(q, ok) ==
    [q EXCEPT !.appended = ok,
              !.ioFailed = IF ok THEN q.ioFailed ELSE q.ioFailed \cup {"append"},
              !.pc = IF env.DEEPSEEK THEN "summary" ELSE "unlink"]

\* await fs.promises.appendFile(transcriptFile, entry, 'utf8'); a failure is
\* caught and logged.  Then the optional summary request is started, or the
\* unlink of the chunk file.
ChunkAppend ==
    /\ chunk.pc = "append"
    /\ \E ok \in IoOk, pos \in 1..(Len(store[1]) + 1) :
         LET f == chunk.transcriptFile
         IN  /\ store' = IF ok THEN [store EXCEPT ![1] = AppendFile(store[1], f, chunk.entry, pos)]
                         ELSE store
             /\ chunk' = AfterAppend(chunk, ok)
             /\ hist' = IF ok
                        THEN [hist EXCEPT !.nAppends = hist.nAppends + 1,
                                          !.log = Append(hist.log,
                                              [name |-> f, entry |-> chunk.entry,
                                               room |-> RoomOf(chunk.roomId),
                                               owner |-> OwnerOf(chunk.userId)])]
                        ELSE hist
    /\ UNCHANGED <<env, fsTmp, dirExists, clock, nChunks, nFinals, fin>>

\* optional per-chunk summary: await fetch(DEEPSEEK_BASE_URL + "/v1/responses")
ChunkSummary ==
    /\ chunk.pc = "summary"
    /\ \E summary \in BOOLEAN :
         chunk' = [chunk EXCEPT !.summary = summary,
                                !.pc = IF chunk.email # None /\ summary /\ env.RESEND_API_KEY
                                       THEN "mail" ELSE "unlink"]
    /\ UNCHANGED <<env, fsTmp, dirExists, store, clock, nChunks, nFinals, fin, hist>>

\* await sendSummaryByEmail(email, ...); a failure is caught and logged
ChunkMail ==
    /\ chunk.pc = "mail"
    /\ \E ok \in BOOLEAN :
         chunk' = [chunk EXCEPT !.mailed = Append(chunk.mailed, [to |-> chunk.email, ok |-> ok]),
                                !.pc = "unlink"]
    /\ UNCHANGED <<env, fsTmp, dirExists, store, clock, nChunks, nFinals, fin, hist>>

\* await fs.promises.unlink(filePath).catch(() => {}); res.json({ success: true, ... })
ChunkUnlink ==
    /\ chunk.pc = "unlink"
    /\ \E ok \in IoOk :
         /\ fsTmp' = IF ok THEN fsTmp \ {chunk.filePath} ELSE fsTmp
         /\ chunk' = [chunk EXCEPT !.pc = "done", !.status = 200,
                                   !.ioFailed = IF ok THEN chunk.ioFailed
                                                ELSE chunk.ioFailed \cup {"unlink"}]
    /\ UNCHANGED <<env, dirExists, store, clock, nChunks, nFinals, fin, hist>>

\* the response has been sent; the next request can arrive.  Temporary file
\* names are fresh for every request, so what this request left behind can
\* never be named again and is dropped from fsTmp.
ChunkDone ==
    /\ chunk.pc = "done"
    /\ chunk' = IdleChunk
    /\ fsTmp' = {}
    /\ UNCHANGED <<env, dirExists, store, clock, nChunks, nFinals, fin, hist>>

(***************************************************************************)
(* POST /finalize: text helpers                                            *)
(***************************************************************************)
sHeaderOpen == <<"\n","-","-","-"," ">>
sFrom == <<" ","(","f","r","o","m"," ">>
sHeaderClose == <<")"," ","-","-","-","\n">>
sTranscripts == <<"t","r","a","n","s","c","r","i","p","t","s">>

\* path.basename(dir): every candidate directory is named 'transcripts'
BaseName(dir) == sTranscripts

\* `\n--- ${f} (from ${path.basename(dir)}) ---\n`
Header(f, dir) == sHeaderOpen \o f \o sFrom \o BaseName(dir) \o sHeaderClose

SetMin(S) == CHOOSE x \in S : \A y \in S : x <= y
SetMax(S) == CHOOSE x \in S : \A y \in S : x >= y

\* the last index e >= i - 1 such that s[i..e] are all characters of class C
RunEnd(s, i, C) ==
    LET bad == {k \in i..Len(s) : s[k] \notin C}
    IN  IF bad = {} THEN Len(s) ELSE SetMin(bad) - 1

EmailLocalChars == LetterChars \cup DigitChars \cup {".", "_", "%", "+", "-"}
EmailDomainChars == LetterChars \cup DigitChars \cup {".", "-"}

\* /[A-Za-z0-9._%+-]+@[A-Za-z0-9.-]+\.[A-Za-z]{2,}/ anchored at position i:
\* the index of the last character of the match, or 0 when there is none.
\* The local part is the whole run (its successor must be '@'); the domain
\* is the longest prefix of its run that is followed by '.' and two letters.
EmailMatchEnd(s, i) ==
    LET e1 == RunEnd(s, i, EmailLocalChars)
        j == e1 + 2
        e2 == RunEnd(s, j, EmailDomainChars)
        K == {k \in (j + 1)..e2 : s[k] = "." /\ RunEnd(s, k + 1, LetterChars) >= k + 2}
    IN  IF e1 >= i /\ e1 + 1 <= Len(s) /\ s[e1 + 1] = "@" /\ K # {}
        THEN RunEnd(s, SetMax(K) + 1, LetterChars)
        ELSE 0

\* (fullText || '').match(emailRegex) || [] : all matches, left to right
RECURSIVE MatchEmailsFrom(_, _)
MatchEmailsFrom(s, i) ==
    LET starts == {k \in i..Len(s) : EmailMatchEnd(s, k) # 0}
    IN  IF starts = {} THEN <<>>
        ELSE LET k == SetMin(starts)
                 e == EmailMatchEnd(s, k)
             IN  <<SubSeq(s, k, e)>> \o MatchEmailsFrom(s, e + 1)

MatchEmails(s) == MatchEmailsFrom(s, 1)

\* Array.from(new Set(found)) : first occurrences, in order
RECURSIVE Unique(_)
Unique(xs) ==
    IF xs = <<>> THEN <<>>
    ELSE LET init == Unique(SubSeq(xs, 1, Len(xs) - 1))
             x == xs[Len(xs)]
         IN  IF \E k \in 1..Len(init) : init[k] = x THEN init ELSE Append(init, x)

WhiteChars == {" ", "\n", "\t", "\r"}

\* normalizedTranscript && normalizedTranscript.trim().length > 0 : the
\* normalized text has one non-empty line for each line of fullText that is
\* not blank
HasText(fullText) == \E k \in 1..Len(fullText) : fullText[k] \notin WhiteChars

\* the n-th smallest element of a set of numbers
Nth(S, n) == CHOOSE x \in S : Cardinality({y \in S : y < x}) = n - 1

\* String.prototype.trim
Trim(s) ==
    LET ink == {k \in 1..Len(s) : s[k] \notin WhiteChars}
    IN  IF ink = {} THEN <<>> ELSE SubSeq(s, SetMin(ink), SetMax(ink))

\* s.split('\n')
SplitLines(s) ==
    LET nl == {k \in 1..Len(s) : s[k] = "\n"}
        n == Cardinality(nl)
    IN  [i \in 1..(n + 1) |->
           SubSeq(s, IF i = 1 THEN 1 ELSE Nth(nl, i - 1) + 1,
                     IF i = n + 1 THEN Len(s) ELSE Nth(nl, i) - 1)]

\* Array.prototype.join(' ')
RECURSIVE JoinSpace(_)
JoinSpace(xs) ==
    IF xs = <<>> THEN <<>>
    ELSE IF Len(xs) = 1 THEN xs[1]
    ELSE xs[1] \o <<" ">> \o JoinSpace(Tail(xs))

\* s.slice(0, n), xs.slice(0, n)
Slice(s, n) == SubSeq(s, 1, IF Len(s) < n THEN Len(s) ELSE n)

FallbackLines == 8                    \* lines.slice(0, 8)
FallbackChars == 2000                 \* .slice(0, 2000)

\* fullText.split('\n').map(s => s.trim()).filter(Boolean)
\*    .slice(0, 8).join(' ').slice(0, 2000)
Extractive(fullText) ==
    LET raw == SplitLines(fullText)
        lines == SelectSeq([i \in 1..Len(raw) |-> Trim(raw[i])], LAMBDA l : l # <<>>)
    IN  Slice(JoinSpace(Slice(lines, FallbackLines)), FallbackChars)

(***************************************************************************)
(* POST /finalize: the transcript preprocessing                            *)
(***************************************************************************)
FullwidthColon == "U+FF1A"            \* the one character U+FF1A
NameChars == LetterChars \cup DigitChars \cup {"_", "-", "."} \cup WhiteChars
SepChars == {":", FullwidthColon, "-"}
MaxNameLen == 60                      \* {1,60}

sChat == <<"(","c","h","a","t",")">>
sHeaderDashes == <<"-","-","-">>
sDesconocido == <<"[","D","e","s","c","o","n","o","c","i","d","o","]",":"," ">>
NoMatch == [ok |-> FALSE, name |-> <<>>, msg |-> <<>>]

\* /^---\s*transcript-/.test(line)
IsHeaderLineM(line) == FALSE
IsHeaderLine(line) ==
    /\ StartsWith(line, sHeaderDashes)
    /\ MatchAt(line, sTranscriptDash, RunEnd(line, 4, WhiteChars) + 1)

\* \s*([\w\-\.\s]{1,60})\s*[:\uFF1A-]\s*(.+)$ anchored at position p, as the
\* backtracking matcher finds it: the leading \s* takes as much as it can,
\* then the name takes as much as it can, such that a separator and at
\* least one more character follow.  name and msg are the trimmed groups.
NameMatchAt(line, p) ==
    LET SepAfter(e) == RunEnd(line, e + 1, WhiteChars) + 1
        Ends(s) == {e \in s..SetMin({s + MaxNameLen - 1, RunEnd(line, s, NameChars)}) :
                       \E sp \in {SepAfter(e)} : sp < Len(line) /\ line[sp] \in SepChars}
        Groups(s, e) == [ok |-> TRUE, name |-> Trim(SubSeq(line, s, e)),
                         msg |-> Trim(SubSeq(line, SepAfter(e) + 1, Len(line)))]
        Longest(s) == Groups(s, SetMax(Ends(s)))
        From(starts) == IF starts = {} THEN NoMatch ELSE Longest(SetMax(starts))
    IN  From({s \in p..(RunEnd(line, p, WhiteChars) + 1) : Ends(s) # {}})

\* the literal \(chat\) of a pattern with the /i flag matches at position i
ChatAt(line, i) ==
    /\ i + Len(sChat) - 1 <= Len(line)
    /\ ToLower(SubSeq(line, i, i + Len(sChat) - 1)) = sChat

\* line.match(nameRegex):
\* /^(?:\(chat\)\s*)?([\w\-\.\s]{1,60})\s*[:\uFF1A-]\s*(.+)$/i
\* A line that starts with '(chat)' matches with the optional group or not
\* at all, '(' not being a character of a name.
NameRegex(line) == NameMatchAt(line, IF ChatAt(line, 1) THEN Len(sChat) + 1 ELSE 1)

\* line.match(/\(chat\)\s*([\w\-\.\s]{1,60})\s*[:\uFF1A-]\s*(.+)$/i): the
\* leftmost '(chat)' from which the rest matches
ChatLoose(line) ==
    LET Leftmost(ms) == IF \E i \in DOMAIN ms : ms[i].ok
                        THEN ms[CHOOSE i \in DOMAIN ms : ms[i].ok /\ \A j \in 1..(i - 1) : ~ms[j].ok]
                        ELSE NoMatch
    IN  Leftmost([i \in 1..Len(line) |->
                    IF ChatAt(line, i) THEN NameMatchAt(line, i + Len(sChat)) ELSE NoMatch])

\* the callback of rawLines.map: the rewritten line and the names it adds
\* to participantsSet
NormLineM(line) ==
    LET Rewrite(m) ==
            IF IsHeaderLine(line) THEN [line |-> line, names |-> <<>>]
            ELSE IF m.ok
            THEN [line |-> line, names |-> <<m.name>>]
            ELSE [line |-> sDesconocido \o line, names |-> <<>>]
        OrLoose(m) == IF m.ok THEN m ELSE ChatLoose(line)
    IN  Rewrite(OrLoose(NameRegex(line)))
NormLine(line) ==
    LET Rewrite(m) ==
            IF IsHeaderLine(line) THEN [line |-> line, names |-> <<>>]
            ELSE IF m.ok
            THEN [line |-> m.name \o <<":", " ">> \o m.msg, names |-> <<m.name>>]
            ELSE [line |-> sDesconocido \o line, names |-> <<>>]
        OrLoose(m) == IF m.ok THEN m ELSE ChatLoose(line)
    IN  Rewrite(OrLoose(NameRegex(line)))

\* fullText.split(/\r?\n/).map(l => l.trim()).filter(Boolean)
RawLines(fullText) ==
    LET raw == SplitLines(fullText)
    IN  SelectSeq([i \in 1..Len(raw) |-> Trim(raw[i])], LAMBDA l : l # <<>>)

\* Array.prototype.join('\n')
RECURSIVE JoinLines(_)
JoinLines(xs) ==
    IF xs = <<>> THEN <<>>
    ELSE IF Len(xs) = 1 THEN xs[1]
    ELSE xs[1] \o <<"\n">> \o JoinLines(Tail(xs))

\* Array.from(participantsSet): the names in the order of their first line
RECURSIVE NamesOf(_)
NamesOf(normLines) ==
    IF normLines = <<>> THEN <<>>
    ELSE normLines[1].names \o NamesOf(Tail(normLines))

\* normalizedTranscript and detectedParticipants
Normalize(fullText) ==
    LET Result(rawLines, normLines) ==
            [rawLines |-> rawLines,
             normLines |-> [i \in 1..Len(normLines) |-> normLines[i].line],
             normalizedTranscript |-> JoinLines([i \in 1..Len(normLines) |-> normLines[i].line]),
             detectedParticipants |-> Unique(NamesOf(normLines))]
        Map(rawLines) == Result(rawLines, [i \in 1..Len(rawLines) |-> NormLine(rawLines[i])])
    IN  Map(RawLines(fullText))

sFallbackShape == <<"[","F","a","l","l","b","a","c","k"," ","s","u","m","m","a","r","y"," ","d","u","e"," ","t","o"," ","D","e","e","p","S","e","e","k"," ","u","n","e","x","p","e","c","t","e","d"," ","s","h","a","p","e","]","\n">>
sFallbackStatus500 == <<"[","F","a","l","l","b","a","c","k"," ","s","u","m","m","a","r","y"," ","d","u","e"," ","t","o"," ","D","e","e","p","S","e","e","k"," ","e","r","r","o","r"," ","(","s","t","a","t","u","s"," ","5","0","0",")","]","\n">>
sFallbackException == <<"[","F","a","l","l","b","a","c","k"," ","s","u","m","m","a","r","y"," ","d","u","e"," ","t","o"," ","D","e","e","p","S","e","e","k"," ","e","x","c","e","p","t","i","o","n","]","\n">>
sLlm == <<"S">>                       \* a summary written by the provider

\* the extractive fallback summaries
FallbackSummary(prefix, fullText) == [kind |-> "fallback", text |-> prefix \o Extractive(fullText)]

SummaryNull == [kind |-> "null", text |-> <<>>]
\* `email && summary`, `summary && ...` : null and '' are falsy
Truthy(summary) == summary.kind \notin {"null", "empty"}

P1 == <<"p","@","x",".","i","o">>
P2 == <<"q","@","x",".","i","o">>
P3 == <<"r","@","x",".","i","o">>
ParticipantLists == {<<>>, <<P1>>, <<P1, P2, P3>>}

RegistryResponses ==
    {[kind |-> "throw"], [kind |-> "notok"]}
        \cup {[kind |-> "ok", participantsEmails |-> ps] : ps \in ParticipantLists}

IdleFin ==
    [pc |-> "idle", roomId |-> None, userId |-> None, email |-> None, status |-> 0,
     dirIdx |-> 0, found |-> <<>>, fileIdx |-> 0,
     fullText |-> <<>>, matchingFiles |-> <<>>,
     rawLines |-> <<>>, normLines |-> <<>>,
     normalizedTranscript |-> <<>>, detectedParticipants |-> <<>>,
     summary |-> SummaryNull, deepseekStatus |-> 0,
     tier |-> "none", recipients |-> <<>>, addrIdx |-> 0, allSent |-> TRUE, unlinkIdx |-> 0,
     \* history of the call
     before |-> {}, appendsAtStart |-> 0, readFailed |-> FALSE, readdirFailed |-> FALSE,
     registryQueried |-> FALSE, registryYield |-> FALSE, provider |-> <<>>,
     attempts |-> <<>>, unlinked |-> {}, removed |-> {}, removedText |-> {}]

NoHist ==
    [nAppends |-> 0, log |-> <<>>, valid |-> FALSE, roomId |-> None, userId |-> None, fullText |-> <<>>,
     appendsAtStart |-> 0, removedAny |-> FALSE, readFailed |-> FALSE]

\* the transcript files that exist: <<root, name>>
AllFiles == UNION {{<<d, f>> : f \in Names(store[d])} : d \in Roots}

(***************************************************************************)
(* POST /finalize: the handler                                             *)
(***************************************************************************)
\* res.json({ success: true, fullText, summary, deepseekStatus })
FinRespond(q) == [q EXCEPT !.pc = "done", !.status = 200]

\* for (const fPath of matchingFiles) { try { await fs.promises.unlink(fPath) } ... }
FinUnlinkStart(q) ==
    IF q.matchingFiles = <<>> THEN FinRespond(q)
    ELSE [q EXCEPT !.pc = "fin_unlink", !.unlinkIdx = 1]

\* the delivery tiers, up to the first await
FinDeliverStart(q) ==
    IF q.email # None /\ Truthy(q.summary) /\ env.RESEND_API_KEY
    THEN [q EXCEPT !.tier = "explicit", !.recipients = <<q.email>>, !.addrIdx = 1,
                   !.pc = "fin_send_explicit"]
    ELSE IF q.email = None /\ Truthy(q.summary) /\ env.RESEND_API_KEY
    THEN IF env.BACKEND_BASE
         THEN [q EXCEPT !.registryQueried = TRUE, !.pc = "fin_registry"]
         ELSE LET unique == Unique(MatchEmails(q.fullText))
              IN  IF Len(unique) > 0
                  THEN [q EXCEPT !.tier = "extract", !.recipients = unique, !.addrIdx = 1,
                                 !.allSent = TRUE, !.pc = "fin_send"]
                  ELSE FinRespond(q)
    ELSE FinRespond(q)

\* after the candidateDirs loop: preprocessing, then the summarization
\* provider when it is configured and there is text
FinAfterAgg(q) ==
    LET Summarize(q1) ==
            IF env.DEEPSEEK /\ HasText(q1.normalizedTranscript)
            THEN [q1 EXCEPT !.pc = "fin_sdk"]
            ELSE FinDeliverStart(q1)
        Preprocess(n) ==
            Summarize([q EXCEPT !.rawLines = n.rawLines,
                                !.normLines = n.normLines,
                                !.normalizedTranscript = n.normalizedTranscript,
                                !.detectedParticipants = n.detectedParticipants])
    IN  Preprocess(Normalize(q.fullText))

\* the candidateDirs loop from index start: skip the directories that do not
\* exist, then await fs.promises.readdir(dir)
AggNext(q, start) ==
    LET ds == {d \in Roots : d >= start /\ dirExists[d]}
    IN  IF ds = {} THEN FinAfterAgg(q)
        ELSE [q EXCEPT !.dirIdx = SetMin(ds), !.pc = "fin_readdir"]

\* the end of the read loop of a directory with matching files: break
AfterFoundM(q) == AggNext(q, q.dirIdx + 1)
AfterFound(q) == FinAfterAgg(q)

\* found: the files of a directory listing that the request selects
Found(q, files) ==
    IF q.userId # None
    THEN IF \E i \in 1..Len(files) : files[i] = TranscriptFileName(RoomOf(q.roomId), q.userId)
         THEN <<TranscriptFileName(RoomOf(q.roomId), q.userId)>>
         ELSE <<>>
    ELSE SelectSeq(files, LAMBDA f : StartsWith(f, TranscriptPrefix(RoomOf(q.roomId))))

\* sendMeetingSummaryEmail(to, ...): resend.emails.send resolves (ok) or
\* throws, and the error is rethrown to the caller
SendMeetingSummaryEmail(attempts, to, ok) == Append(attempts, [to |-> to, ok |-> ok])

\* the locals of a new call: fullText = '', matchingFiles = [], ...
NewFinM(roomId, userId, email) ==
    [IdleFin EXCEPT !.roomId = roomId, !.userId = userId, !.email = email,
                    !.fullText = hist.fullText,
                    !.before = AllFiles, !.appendsAtStart = hist.nAppends]
NewFin(roomId, userId, email) ==
    [IdleFin EXCEPT !.roomId = roomId, !.userId = userId, !.email = email,
                    !.before = AllFiles, !.appendsAtStart = hist.nAppends]

\* the handler of POST /finalize up to its first await
FinReceiveFrom(roomIds, userIds, emails, limit) ==
    /\ fin.pc = "idle"
    /\ nFinals < limit
    /\ nFinals' = nFinals + 1
    /\ \E roomId \in roomIds, userId \in userIds, email \in emails :
         fin' = AggNext(NewFin(roomId, userId, email), 1)
    /\ UNCHANGED <<env, fsTmp, dirExists, store, clock, nChunks, chunk, hist>>

\* await fs.promises.readdir(dir) and the selection of the matching files
FinReaddir ==
    /\ fin.pc = "fin_readdir"
    /\ \E ok \in IoOk :
         LET dir == store[fin.dirIdx]
             files == [i \in 1..Len(dir) |-> dir[i].name]
             found == Found(fin, files)
         IN  fin' = IF ok /\ Len(found) > 0
                    THEN [fin EXCEPT !.found = found, !.fileIdx = 1, !.pc = "fin_read"]
                    ELSE AggNext([fin EXCEPT !.readdirFailed = fin.readdirFailed \/ ~ok],
                                 fin.dirIdx + 1)
    /\ UNCHANGED <<env, fsTmp, dirExists, store, clock, nChunks, nFinals, chunk, hist>>

\* await fs.promises.readFile(path.join(dir, f), 'utf8') for the next file
FinRead ==
    /\ fin.pc = "fin_read"
    /\ \E ok \in IoOk :
         LET d == fin.dirIdx
             f == fin.found[fin.fileIdx]
             q1 == IF ok /\ f \in Names(store[d])
                   THEN [fin EXCEPT !.fullText = fin.fullText \o Header(f, d) \o TextOf(store[d], f),
                                    !.matchingFiles = Append(fin.matchingFiles, <<d, f>>)]
                   ELSE [fin EXCEPT !.readFailed = TRUE]
         IN  fin' = IF fin.fileIdx < Len(fin.found)
                    THEN [q1 EXCEPT !.fileIdx = fin.fileIdx + 1]
                    ELSE AfterFound(q1)
    /\ UNCHANGED <<env, fsTmp, dirExists, store, clock, nChunks, nFinals, chunk, hist>>

\* the SDK returned no content: '[Fallback summary due to DeepSeek unexpected shape]\n' + ...
SdkShape(q) == [q EXCEPT !.summary = FallbackSummary(sFallbackShape, q.fullText)]

\* the raw HTTP attempt returned a non-success status
RawNotOkM(q) == [q EXCEPT !.deepseekStatus = 500]
RawNotOk(q) ==
    [q EXCEPT !.summary = FallbackSummary(sFallbackStatus500, q.fullText), !.deepseekStatus = 500]

\* the raw HTTP attempt threw
RawThrow(q) == [q EXCEPT !.summary = FallbackSummary(sFallbackException, q.fullText)]

\* await client.chat.completions.create(...)
FinSdk ==
    /\ fin.pc = "fin_sdk"
    /\ \E out \in {"content", "shape", "throw"} :
         LET q == [fin EXCEPT !.provider = Append(fin.provider, <<"sdk", out>>)]
         IN  fin' = CASE out = "content" ->
                           FinDeliverStart([q EXCEPT !.summary = [kind |-> "llm", text |-> sLlm],
                                                     !.deepseekStatus = 200])
                      [] out = "shape" -> FinDeliverStart(SdkShape(q))
                      [] out = "throw" -> [q EXCEPT !.pc = "fin_raw"]
    /\ UNCHANGED <<env, fsTmp, dirExists, store, clock, nChunks, nFinals, chunk, hist>>

\* secondary attempt: await fetch(DEEPSEEK_BASE_URL + '/v1/responses') and ds.text()
FinRaw ==
    /\ fin.pc = "fin_raw"
    /\ \E out \in {"ok", "ok_empty", "notok", "throw"} :
         LET q == [fin EXCEPT !.provider = Append(fin.provider, <<"raw", out>>)]
         IN  fin' = CASE out = "ok" ->
                           FinDeliverStart([q EXCEPT !.summary = [kind |-> "llm", text |-> sLlm],
                                                     !.deepseekStatus = 200])
                      [] out = "ok_empty" ->
                           FinDeliverStart([q EXCEPT !.summary = [kind |-> "empty", text |-> <<>>],
                                                     !.deepseekStatus = 200])
                      [] out = "notok" -> FinDeliverStart(RawNotOk(q))
                      [] out = "throw" -> FinDeliverStart(RawThrow(q))
    /\ UNCHANGED <<env, fsTmp, dirExists, store, clock, nChunks, nFinals, chunk, hist>>

\* catch (e) of the explicit tier: the failure is logged, nothing else is tried
AfterExplicitFailM(q) ==
    LET unique == Unique(MatchEmails(q.fullText))
    IN  IF Len(unique) > 0
        THEN [q EXCEPT !.tier = "extract", !.recipients = unique, !.addrIdx = 1,
                       !.allSent = TRUE, !.pc = "fin_send"]
        ELSE FinRespond(q)
AfterExplicitFail(q) == FinRespond(q)

\* let allSent = true; ... catch (e) { allSent = false; ... }
AllSentAfterM(allSent, ok) == ok
AllSentAfter(allSent, ok) == allSent /\ ok

\* explicit tier: await sendSummaryByEmail(email, ...), then the unlink loop
FinSendExplicit ==
    /\ fin.pc = "fin_send_explicit"
    /\ \E ok \in BOOLEAN :
         LET q1 == [fin EXCEPT !.attempts = SendMeetingSummaryEmail(fin.attempts, fin.email, ok)]
         IN  fin' = IF ok THEN FinUnlinkStart(q1) ELSE AfterExplicitFail(q1)
    /\ UNCHANGED <<env, fsTmp, dirExists, store, clock, nChunks, nFinals, chunk, hist>>

\* the registry query threw, was answered with a non-success status or with
\* no participant: logged, and the handler goes on to the response
NoParticipantsM(q) == [q EXCEPT !.pc = "done", !.status = 500]
NoParticipants(q) == FinRespond(q)

\* registry tier: await fetch(`${backend}/api/meetings/${room}`) and resp.json()
FinRegistry ==
    /\ fin.pc = "fin_registry"
    /\ \E resp \in RegistryResponses :
         fin' = IF resp.kind = "ok" /\ Len(resp.participantsEmails) > 0
                THEN [fin EXCEPT !.tier = "registry", !.recipients = resp.participantsEmails,
                                 !.registryYield = TRUE,
                                 !.addrIdx = 1, !.allSent = TRUE, !.pc = "fin_send"]
                ELSE NoParticipants(fin)
    /\ UNCHANGED <<env, fsTmp, dirExists, store, clock, nChunks, nFinals, chunk, hist>>

\* for (const addr of participants) / for (const addr of unique): the loop
\* goes on to the next address whether the send resolved or threw
MoreToSendM(q, ok) == ok /\ q.addrIdx < Len(q.recipients)
MoreToSend(q, ok) == q.addrIdx < Len(q.recipients)

\* registry and extraction tiers: await sendSummaryByEmail(addr, ...) for the
\* next address; after the last one, the unlink loop if allSent
FinSend ==
    /\ fin.pc = "fin_send"
    /\ \E ok \in BOOLEAN :
         LET addr == fin.recipients[fin.addrIdx]
             q1 == [fin EXCEPT !.attempts = SendMeetingSummaryEmail(fin.attempts, addr, ok),
                               !.allSent = AllSentAfter(fin.allSent, ok)]
         IN  fin' = IF MoreToSend(fin, ok)
                    THEN [q1 EXCEPT !.addrIdx = fin.addrIdx + 1]
                    ELSE IF q1.allSent THEN FinUnlinkStart(q1) ELSE FinRespond(q1)
    /\ UNCHANGED <<env, fsTmp, dirExists, store, clock, nChunks, nFinals, chunk, hist>>

\* try { await fs.promises.unlink(fPath) } catch (e) { /* ignore */ }
FinUnlink ==
    /\ fin.pc = "fin_unlink"
    /\ \E ok \in IoOk :
         LET fPath == fin.matchingFiles[fin.unlinkIdx]
             d == fPath[1]
             f == fPath[2]
             gone == ok /\ f \in Names(store[d])
             q1 == [fin EXCEPT !.unlinked = fin.unlinked \cup {fPath},
                               !.removed = IF gone THEN fin.removed \cup {fPath} ELSE fin.removed,
                               !.removedText = IF gone THEN fin.removedText \cup {TextOf(store[d], f)}
                                               ELSE fin.removedText]
         IN  /\ store' = IF gone THEN [store EXCEPT ![d] = Unlink(store[d], f)] ELSE store
             /\ hist' = IF gone /\ d = 1
                        THEN [hist EXCEPT !.log = SelectSeq(hist.log, LAMBDA a : a.name # f)]
                        ELSE hist
             /\ fin' = IF fin.unlinkIdx < Len(fin.matchingFiles)
                       THEN [q1 EXCEPT !.unlinkIdx = fin.unlinkIdx + 1]
                       ELSE FinRespond(q1)
    /\ UNCHANGED <<env, fsTmp, dirExists, clock, nChunks, nFinals, chunk>>

\* the response has been sent; the next finalize request can arrive
FinDone ==
    /\ fin.pc = "done"
    /\ hist' = [nAppends |-> hist.nAppends, log |-> hist.log, valid |-> TRUE,
                roomId |-> fin.roomId, userId |-> fin.userId, fullText |-> fin.fullText,
                appendsAtStart |-> fin.appendsAtStart,
                removedAny |-> fin.removed # {},
                readFailed |-> fin.readFailed \/ fin.readdirFailed]
    /\ fin' = IdleFin
    /\ UNCHANGED <<env, fsTmp, dirExists, store, clock, nChunks, nFinals, chunk>>

(***************************************************************************)
(* Specification                                                           *)
(***************************************************************************)
EnvFields == {"GROQ_KEY", "TRANSCODE_ON_SERVER", "ffmpegPath", "DEEPSEEK", "RESEND_API_KEY", "BACKEND_BASE", "FS_FAULTS"}
Envs == [EnvFields -> BOOLEAN]

\* a transcript file left by the older services in another candidate directory
LegacyName == TranscriptFileName(sA, sU)
LegacyText(d) == <<"o","l","d",(<<"1","2","3">>)[d],"\n">>
LegacyDir(d) == <<[name |-> LegacyName, text |-> LegacyText(d)]>>

\* the server after start-up, in one of the given configurations, with the
\* candidate directories of one of the given sets left by the older services
InitWith(envs, legacies) ==
    /\ env \in envs
    /\ fsTmp = {}
    /\ \E legacy \in legacies :
         /\ dirExists = [d \in Roots |-> d \in legacy]
         /\ store = [d \in Roots |-> IF d \in legacy THEN LegacyDir(d) ELSE EmptyDir]
    /\ clock = 0
    /\ nChunks = 0
    /\ nFinals = 0
    /\ chunk = IdleChunk
    /\ fin = IdleFin
    /\ hist = NoHist

(***************************************************************************)
(* SpecTb: chunk ingestion alone, one request after the other, under every *)
(* configuration of the transcription client and every provider response.  *)
(***************************************************************************)
TbEnvs == {e \in Envs : e.DEEPSEEK /\ e.RESEND_API_KEY /\ ~e.BACKEND_BASE}

TbChunkReceive == ChunkReceiveFrom({sA}, {sU}, {None, Email1}, BufSizes)
TbFetch == TbFetchFrom(Responses)

InitTb == InitWith(TbEnvs, {{}})

NextTb ==
    \/ TbChunkReceive
    \/ ChunkWrite
    \/ TbPreUnlink
    \/ TbRead
    \/ TbFetch
    \/ ExecFileSync
    \/ TbOkUnlink
    \/ TbCatchUnlink
    \/ ChunkAppend
    \/ ChunkSummary
    \/ ChunkMail
    \/ ChunkUnlink
    \/ ChunkDone

SpecTb == InitTb /\ [][NextTb]_vars

(***************************************************************************)
(* Spec: the server with a client that sends one request after the other   *)
(* (chunk uploads and finalize calls in any order), a transcription        *)
(* provider that answers every submission, the mailer configured, with and *)
(* without the summarization provider.                                     *)
(***************************************************************************)
SeqEnvs ==
    {e \in Envs : /\ e.GROQ_KEY /\ ~e.TRANSCODE_ON_SERVER /\ e.ffmpegPath
                  /\ e.RESEND_API_KEY /\ ~e.BACKEND_BASE /\ ~e.FS_FAULTS}

SeqResponses == {[kind |-> "ok", json |-> [text |-> sHi]]}

SeqChunkReceive ==
    /\ fin.pc = "idle"
    /\ ChunkReceiveFrom(RoomIds, UserIds, {None}, {MinChunkBytes})

SeqFetch == TbFetchFrom(SeqResponses)

SeqFinReceive ==
    /\ chunk.pc = "idle"
    /\ FinReceiveFrom(RoomIds, UserIds \cup {None}, {Email1}, MaxFinals)

Init == InitWith(SeqEnvs, {{}, {2, 3}})

Next ==
    \/ SeqChunkReceive
    \/ ChunkWrite
    \/ TbRead
    \/ SeqFetch
    \/ ChunkAppend
    \/ ChunkSummary
    \/ ChunkUnlink
    \/ ChunkDone
    \/ SeqFinReceive
    \/ FinReaddir
    \/ FinRead
    \/ FinSdk
    \/ FinRaw
    \/ FinSendExplicit
    \/ FinUnlink
    \/ FinDone

Spec == Init /\ [][Next]_vars

(***************************************************************************)
(* SpecDeliver: finalize alone, one call after the other, over transcript  *)
(* files that chunk ingestion has written, under every configuration of    *)
(* the summarization provider, the mailer and the meeting registry.        *)
(***************************************************************************)
sV == <<"v">>
sMail2 == <<"c","@","d",".","e","f">>

\* the transcript directory after the chunks of a meeting
DeliverDirs ==
    LET fu == TranscriptFileName(sA, sU)
        fv == TranscriptFileName(sA, sV)
        plain == AppendFile(EmptyDir, fu, Entry(0, sU, sHi), 1)
        twice == AppendFile(AppendFile(EmptyDir, fu, Entry(0, sU, sMail1), 1), fu, Entry(1, sU, sMail1), 1)
        two == AppendFile(twice, fv, Entry(2, sV, sMail2), 2)
    IN  {EmptyDir, plain, twice, two}

DeliverEnvs ==
    {e \in Envs : e.GROQ_KEY /\ ~e.TRANSCODE_ON_SERVER /\ e.ffmpegPath}

DeliverFinReceive == FinReceiveFrom({sA}, {None, sU}, {None, Email1}, MaxFinals)

InitDeliver ==
    /\ env \in DeliverEnvs
    /\ fsTmp = {}
    /\ dirExists = [d \in Roots |-> d = 1]
    /\ \E dir \in DeliverDirs : store = [d \in Roots |-> IF d = 1 THEN dir ELSE EmptyDir]
    /\ clock = 0
    /\ nChunks = 0
    /\ nFinals = 0
    /\ chunk = IdleChunk
    /\ fin = IdleFin
    /\ hist = NoHist

NextDeliver ==
    \/ DeliverFinReceive
    \/ FinReaddir
    \/ FinRead
    \/ FinSdk
    \/ FinRaw
    \/ FinSendExplicit
    \/ FinRegistry
    \/ FinSend
    \/ FinUnlink
    \/ FinDone

SpecDeliver == InitDeliver /\ [][NextDeliver]_vars

(***************************************************************************)
(* SpecFaults: the sequential client of Spec over a file system whose      *)
(* calls can fail.                                                         *)
(***************************************************************************)
FaultEnvs ==
    {e \in Envs : /\ e.GROQ_KEY /\ ~e.TRANSCODE_ON_SERVER /\ e.ffmpegPath
                  /\ e.RESEND_API_KEY /\ ~e.BACKEND_BASE /\ e.FS_FAULTS}

InitFaults == InitWith(FaultEnvs, {{}})

SpecFaults == InitFaults /\ [][Next]_vars

(***************************************************************************)
(* SpecLoop: the event loop with a chunk request and a finalize request in *)
(* flight at the same time.  The steps of the two handlers interleave at   *)
(* their awaits; a handler that is inside a synchronous call keeps the     *)
(* process, and no other handler runs until the call returns.              *)
(***************************************************************************)
LoopEnvs ==
    {e \in Envs : /\ e.GROQ_KEY /\ e.ffmpegPath
                  /\ ~e.DEEPSEEK /\ ~e.RESEND_API_KEY /\ ~e.BACKEND_BASE /\ ~e.FS_FAULTS}

LoopResponses ==
    {[kind |-> "fail", body |-> BodySignalA], [kind |-> "ok", json |-> [text |-> sHi]]}

LoopChunkReceive == ~Blocked /\ ChunkReceiveFrom({sA}, {sU}, {None}, {MinChunkBytes})
LoopFetch == TbFetchFrom(LoopResponses)

LoopFinReceive == ~Blocked /\ FinReceiveFrom({sA}, {sU}, {None}, MaxFinals)
LoopFinReaddir == ~Blocked /\ FinReaddir
LoopFinRead == ~Blocked /\ FinRead
LoopFinDone == ~Blocked /\ FinDone

\* a step of the finalize request in flight
LoopFinStep == LoopFinReaddir \/ LoopFinRead \/ LoopFinDone

InitLoop == InitWith(LoopEnvs, {{}})

NextLoop ==
    \/ LoopChunkReceive
    \/ ChunkWrite
    \/ TbPreUnlink
    \/ TbRead
    \/ LoopFetch
    \/ ExecFileSync
    \/ TbOkUnlink
    \/ TbCatchUnlink
    \/ ChunkAppend
    \/ ChunkUnlink
    \/ ChunkDone
    \/ LoopFinReceive
    \/ LoopFinReaddir
    \/ LoopFinRead
    \/ LoopFinDone

SpecLoop == InitLoop /\ [][NextLoop]_vars

(***************************************************************************)
(* SpecTbFair: SpecTb where every provider submission, every transcoder    *)
(* run and every file-system call of transcribeBuffer eventually returns.  *)
(***************************************************************************)
SpecTbFair ==
    /\ SpecTb
    /\ WF_vars(TbPreUnlink)
    /\ WF_vars(TbRead)
    /\ WF_vars(TbFetch)
    /\ WF_vars(ExecFileSync)
    /\ WF_vars(TbOkUnlink)
    /\ WF_vars(TbCatchUnlink)

(***************************************************************************)
(* SpecRace: chunk ingestion and finalize of one room in flight together,  *)
(* with the summarization provider and the mailer configured and no        *)
(* transcoding (execFileSync never runs, so the two requests interleave at *)
(* every await).                                                           *)
(***************************************************************************)
RaceEnvs ==
    {e \in Envs : /\ e.GROQ_KEY /\ ~e.TRANSCODE_ON_SERVER /\ e.ffmpegPath /\ e.DEEPSEEK
                  /\ e.RESEND_API_KEY /\ ~e.BACKEND_BASE /\ ~e.FS_FAULTS}

RaceResponses == {[kind |-> "ok", json |-> [text |-> sHi]]}

RaceChunkReceive == ChunkReceiveFrom({sA}, {sU}, {None}, {MinChunkBytes})
RaceFetch == TbFetchFrom(RaceResponses)
RaceFinReceive == FinReceiveFrom({sA}, {None}, {Email1}, MaxFinals)

InitRace == InitWith(RaceEnvs, {{}})

NextRace ==
    \/ RaceChunkReceive
    \/ ChunkWrite
    \/ TbRead
    \/ RaceFetch
    \/ ChunkAppend
    \/ ChunkSummary
    \/ ChunkUnlink
    \/ ChunkDone
    \/ RaceFinReceive
    \/ FinReaddir
    \/ FinRead
    \/ FinSdk
    \/ FinRaw
    \/ FinSendExplicit
    \/ FinUnlink
    \/ FinDone

SpecRace == InitRace /\ [][NextRace]_vars

(***************************************************************************)
(* SpecNorm: finalize alone over the chat transcripts that the older       *)
(* services left in a candidate directory, for every text of one or two    *)
(* lines of a pool of chat lines.                                          *)
(***************************************************************************)
sAna == <<"A","n","a">>
sBo == <<"B","o">>
sHola == <<"h","o","l","a"," ","a"," ","t","o","d","o","s">>
sOk == <<"o","k">>
sTardes == <<"b","u","e","n","a","s"," ","t","a","r","d","e","s">>
sChatSp == <<"(","c","h","a","t",")"," ">>

ChatNames == {sAna, sBo}
ChatMessages == {sHola, sOk}

\* '(chat) Name: message' and 'Name: message'
ChatLines ==
    {prefix \o name \o <<":", " ">> \o msg :
        prefix \in {<<>>, sChatSp}, name \in ChatNames, msg \in ChatMessages}

\* lines without a name
PlainLines == {sTardes, <<"A","n","a",":">>, <<"[","1","2",":","0","0","]"," ","h","o","l","a">>}

\* other forms that the name patterns accept
LooseLines == {<<"(","C","H","A","T",")","B","o"," ","-"," ","o","k">>, <<"x","!"," ","(","c","h","a","t",")"," ","A","n","a",":"," ","o","k">>, <<"B","o",FullwidthColon,"o","k">>, <<"A","n","a"," ","B","o"," "," ",":"," "," ","o","k">>}

NormPool == ChatLines \cup PlainLines \cup LooseLines
NormTexts ==
    {l \o <<"\n">> : l \in NormPool}
        \cup {<<" ">> \o l1 \o <<" ", "\r", "\n", "\n">> \o l2 \o <<"\n">> : l1 \in NormPool, l2 \in NormPool}

NormEnvs ==
    {e \in Envs : /\ e.GROQ_KEY /\ ~e.TRANSCODE_ON_SERVER /\ e.ffmpegPath /\ ~e.DEEPSEEK
                  /\ ~e.RESEND_API_KEY /\ ~e.BACKEND_BASE /\ ~e.FS_FAULTS}

NormFinReceive == FinReceiveFrom({sA}, {None, sU}, {None}, MaxFinals)

InitNorm ==
    /\ env \in NormEnvs
    /\ fsTmp = {}
    /\ dirExists = [d \in Roots |-> d = 2]
    /\ \E t \in NormTexts :
         store = [d \in Roots |-> IF d = 2 THEN <<[name |-> LegacyName, text |-> t]>> ELSE EmptyDir]
    /\ clock = 0
    /\ nChunks = 0
    /\ nFinals = 0
    /\ chunk = IdleChunk
    /\ fin = IdleFin
    /\ hist = NoHist

NextNorm ==
    \/ NormFinReceive
    \/ FinReaddir
    \/ FinRead
    \/ FinDone

SpecNorm == InitNorm /\ [][NextNorm]_vars

(***************************************************************************)
(* Claims about the transcription client and chunk ingestion (SpecTb)      *)
(***************************************************************************)
\* C1: a second submission to the provider is made only if the first
\* submission failed with the unprocessable-media signal; any other failure
\* of the first submission ends the call without a second submission.
C1_SecondSubmissionOnlyAfterSignal ==
    chunk.submissions >= 2 => (Len(chunk.subs) >= 1 /\ chunk.subs[1] = "signal")

\* C2: one transcribeBuffer call makes at most two submissions to the
\* provider, whatever the responses and the transcoder outcomes.
C2_AtMostTwoSubmissions == chunk.submissions <= 2

\* a call that ended after two submissions, the second one after a retry transcode
C2_Witness ==
    /\ chunk.pc = "done"
    /\ chunk.submissions = 2
    /\ chunk.subs = <<"signal", "other">>
    /\ chunk.transcodes >= 1

\* C3: when a transcribeBuffer call has ended, by returning or by throwing,
\* a delete has been attempted on every temporary wav file that the call
\* created.
C3_TempWavDeleteAttempted ==
    (chunk.called /\ chunk.pc \in {"append", "summary", "mail", "unlink", "done"})
        => chunk.created \subseteq chunk.unlinked

\* C10: a chunk body that is absent or shorter than 4000 bytes is answered
\* with status 400, and the request writes no file, calls no transcription
\* and appends no transcript line.
C10_SmallChunkRejected ==
    (chunk.pc # "idle" /\ (chunk.buf = NoBuf \/ chunk.buf < MinChunkBytes))
        => /\ chunk.pc = "done"
           /\ chunk.status = 400
           /\ ~chunk.wrote /\ ~chunk.called /\ ~chunk.appended
           /\ chunk.submissions = 0
           /\ fsTmp = {}

\* a body of 3999 bytes has been rejected
C10_Witness ==
    /\ chunk.pc = "done"
    /\ chunk.buf = MinChunkBytes - 1
    /\ chunk.status = 400

(***************************************************************************)
(* Claims about the transcript store and aggregation (Spec)                *)
(***************************************************************************)
\* the candidateDirs loop of the call has ended
AggDone(q) ==
    q.pc \in {"fin_sdk", "fin_raw", "fin_send_explicit", "fin_registry", "fin_send", "fin_unlink", "done"}

\* the names of a directory, in listing order
Listing(d) == [i \in 1..Len(store[d]) |-> store[d][i].name]

RECURSIVE ConcatAll(_)
ConcatAll(texts) == IF texts = <<>> THEN <<>> ELSE texts[1] \o ConcatAll(Tail(texts))

\* the entries appended to file f of the first root since it was last
\* deleted, in the order of the appends
Appended(f) ==
    LET es == SelectSeq(hist.log, LAMBDA a : a.name = f)
    IN  [i \in 1..Len(es) |-> es[i].entry]

\* C7: the text aggregated by finalize contains, for every transcript file
\* of chunk ingestion that the call selects, all the entries appended to it
\* since its last deletion, unmodified and in the order of the appends.
C7_AppendsAdditive ==
    (AggDone(fin) /\ fin.removed = {})
        => \A i \in 1..Len(store[1]) :
             LET f == store[1][i].name
             IN  (\E k \in 1..Len(Found(fin, Listing(1))) : Found(fin, Listing(1))[k] = f)
                    => Contains(fin.fullText, ConcatAll(Appended(f)))

\* a call for (room a, user u) has aggregated a file with two appended entries
C7_Witness ==
    /\ AggDone(fin) /\ fin.removed = {}
    /\ fin.roomId = sA /\ fin.userId = sU
    /\ Len(Appended(TranscriptFileName(sA, sU))) = 2
    /\ Contains(fin.fullText, ConcatAll(Appended(TranscriptFileName(sA, sU))))

\* the roots that exist and hold a file that the call selects
MatchingRoots(q) == {d \in Roots : dirExists[d] /\ Len(Found(q, Listing(d))) > 0}

\* C8: the aggregated text and the matched paths come from exactly one root,
\* the first in priority order with a matching file, and only files of that
\* root are unlinked.
C8_FirstMatchWins ==
    /\ (AggDone(fin) /\ fin.removed = {}) =>
          IF MatchingRoots(fin) = {}
          THEN fin.matchingFiles = <<>> /\ fin.fullText = <<>>
          ELSE LET d == SetMin(MatchingRoots(fin))
                   found == Found(fin, Listing(d))
               IN  /\ fin.matchingFiles = [i \in 1..Len(found) |-> <<d, found[i]>>]
                   /\ fin.fullText =
                        ConcatAll([i \in 1..Len(found) |-> Header(found[i], d) \o TextOf(store[d], found[i])])
    /\ \A p \in fin.unlinked :
          /\ p[1] = fin.matchingFiles[1][1]
          /\ \E i \in 1..Len(fin.matchingFiles) : fin.matchingFiles[i] = p

\* root 1 and root 2 both hold a matching file and root 1 was aggregated
C8_Witness ==
    /\ fin.pc = "done" /\ fin.removed = {}
    /\ {1, 2} \subseteq MatchingRoots(fin)
    /\ fin.matchingFiles # <<>>
    /\ fin.matchingFiles[1][1] = 1

\* the previous call had the same room and owner, and no transcript line
\* was appended since it started
SameCallAgain ==
    /\ AggDone(fin)
    /\ hist.valid
    /\ hist.roomId = fin.roomId /\ hist.userId = fin.userId
    /\ hist.nAppends = hist.appendsAtStart

AttemptedTo(q) == [i \in 1..Len(q.attempts) |-> q.attempts[i].to]

SomeFailed(q) == \E i \in 1..Len(q.attempts) : ~q.attempts[i].ok

\* C4: a finalize call unlinks transcript files only if it attempted at
\* least one delivery and every delivery it attempted succeeded; while no
\* delivery has been attempted or one has failed, every transcript file
\* that existed before the call still exists.
C4_DeleteOnlyAfterFullDelivery ==
    /\ fin.unlinked # {} => (fin.attempts # <<>> /\ ~SomeFailed(fin))
    /\ (fin.attempts = <<>> \/ SomeFailed(fin)) => fin.before \subseteq AllFiles

\* two of three deliveries succeeded and the aggregated files remain
C4_Witness ==
    /\ fin.pc = "done"
    /\ Len(fin.attempts) = 3
    /\ Cardinality({i \in 1..3 : fin.attempts[i].ok}) = 2
    /\ fin.matchingFiles # <<>>
    /\ fin.unlinked = {}
    /\ fin.before # {} /\ fin.before \subseteq AllFiles

\* C5: without an explicit email, with a summary and the mailer configured,
\* the addresses mailed are the deduplicated addresses extracted from the
\* aggregated text both when no registry is configured and when the
\* configured registry yields no address.
C5_ExtractionWhenRegistryYieldsNothing ==
    (/\ fin.pc = "done"
     /\ fin.email = None /\ Truthy(fin.summary) /\ env.RESEND_API_KEY
     /\ (~env.BACKEND_BASE \/ (fin.registryQueried /\ ~fin.registryYield)))
        => AttemptedTo(fin) = Unique(MatchEmails(fin.fullText))

\* C6: with an explicit email, the registry is not queried and every
\* delivery attempted is to that address; with a summary and the mailer
\* configured there is exactly one attempt, whether it succeeds or fails.
C6_ExplicitEmailOnly ==
    fin.email # None =>
        /\ ~fin.registryQueried
        /\ \A i \in 1..Len(fin.attempts) : fin.attempts[i].to = fin.email
        /\ Len(fin.attempts) <= 1
        /\ (fin.pc = "done" /\ Truthy(fin.summary) /\ env.RESEND_API_KEY)
              => Len(fin.attempts) = 1

\* the explicit delivery failed, a registry is configured and the text
\* holds an address, and nothing else was mailed
C6_Witness ==
    /\ fin.pc = "done"
    /\ fin.email = Email1
    /\ env.BACKEND_BASE
    /\ Len(MatchEmails(fin.fullText)) > 0
    /\ fin.attempts = <<[to |-> Email1, ok |-> FALSE]>>

\* C11: in the registry and extraction tiers a delivery is attempted to
\* every resolved address, in order, whatever the outcome of the deliveries
\* before it.
C11_EveryAddressAttempted ==
    (fin.tier \in {"registry", "extract"} /\ fin.pc \in {"fin_unlink", "done"})
        => AttemptedTo(fin) = fin.recipients

\* the first of three deliveries failed and the other two were attempted
C11_Witness ==
    /\ fin.pc = "done"
    /\ fin.tier = "registry"
    /\ Len(fin.recipients) = 3
    /\ Len(fin.attempts) = 3
    /\ ~fin.attempts[1].ok

\* C12: a finalize call that has computed a summary responds with
\* success:true, whatever the outcome of the registry query and of the
\* deliveries.
C12_SuccessWhateverDelivery ==
    (fin.pc = "done" /\ fin.summary # SummaryNull) => fin.status = 200

\* a summary was computed, the registry yielded no address, nothing was
\* delivered and the response is a success
C12_Witness ==
    /\ fin.pc = "done"
    /\ Truthy(fin.summary)
    /\ fin.registryQueried /\ ~fin.registryYield
    /\ fin.attempts = <<>>
    /\ fin.status = 200

\* the last answer of the summarization provider was a failure
ProviderFailed(q) ==
    /\ q.provider # <<>>
    /\ q.provider[Len(q.provider)] \in {<<"sdk", "shape">>, <<"raw", "notok">>, <<"raw", "throw">>}

Returned(q) == q.pc \in {"append", "summary", "mail", "unlink"} \/ (q.pc = "done" /\ q.status = 200)

\* C14: when the first submission fails with the unprocessable-media signal
\* and the second submission (of the file the retry transcode wrote)
\* succeeds, transcribeBuffer returns the transcript with retried and
\* transcoded true, and the request does not end with an error.
C14_RecoveredFailureNotSurfaced ==
    chunk.subs = <<"signal", "ok">> =>
        /\ chunk.pc = "tb_ok_unlink" \/ Returned(chunk)
        /\ chunk.retried /\ chunk.transcoded
        /\ chunk.transcript # <<>>
        /\ chunk.sent[2] = RetryWavPath(chunk.filePath)

\* a request that recovered through the retry transcode and ended with 200
C14_Witness ==
    /\ chunk.pc = "done" /\ chunk.status = 200
    /\ chunk.subs = <<"signal", "ok">>
    /\ chunk.retried /\ chunk.transcoded
    /\ chunk.transcript = sHi

\* C15: without a provider key transcribeBuffer throws at once: no
\* submission, no transcode, no temporary file, and the request ends with
\* the 500 response without a transcript line appended.
C15_NoKeyFailsImmediately ==
    (~env.GROQ_KEY /\ chunk.called) =>
        /\ chunk.pc = "done" /\ chunk.status = 500
        /\ chunk.submissions = 0 /\ chunk.transcodes = 0
        /\ chunk.created = {} /\ fsTmp \subseteq {chunk.filePath}
        /\ ~chunk.appended /\ chunk.entry = <<>>
        /\ store[1] = EmptyDir

\* a request that was rejected for the missing key although the
\* pre-transcode is configured
C15_Witness ==
    /\ ~env.GROQ_KEY /\ env.TRANSCODE_ON_SERVER /\ env.ffmpegPath
    /\ chunk.called
    /\ chunk.pc = "done" /\ chunk.status = 500

\* C16: a failure of the retry transcode ends the call with an error, after
\* at most the cleanup of the temporary wav and with no further submission;
\* a failure of the pre-transcode does not: the first file submitted is the
\* original one, and a submission is made unless the file cannot be read.
C16_RetryTranscodeFailurePropagates ==
    /\ chunk.retryFailed =>
          /\ chunk.pc \in {"tb_catch_unlink", "done"}
          /\ chunk.pc = "done" => chunk.status = 500
          /\ chunk.submissions = Len(chunk.subs)
          /\ chunk.subs[Len(chunk.subs)] = "signal"
    /\ chunk.preFailed =>
          /\ chunk.pc = "tb_pre_unlink" \/ chunk.sendPath = chunk.filePath \/ chunk.attemptedTranscode
          /\ chunk.sent # <<>> => chunk.sent[1] = chunk.filePath
          /\ (chunk.pc = "done" /\ ~env.FS_FAULTS) => chunk.sent # <<>>

\* the pre-transcode failed, the original file was submitted, the answer was
\* the signal, the retry transcode failed and the request ended with 500
C16_Witness ==
    /\ chunk.pc = "done" /\ chunk.status = 500
    /\ chunk.preFailed /\ chunk.retryFailed
    /\ chunk.attempt = 0
    /\ chunk.sent = <<chunk.filePath>>
    /\ chunk.subs = <<"signal">>

\* C17: the transcoder is invoked at most once in one transcribeBuffer call.
C17_AtMostOneTranscode == chunk.transcodes <= 1

\* C18: when the request has completed, the temporary chunk file that the
\* handler wrote does not exist any more (on a file system whose calls
\* succeed).
C18_ChunkFileRemoved ==
    (chunk.pc = "done" /\ chunk.wrote /\ ~env.FS_FAULTS) => chunk.filePath \notin fsTmp

(***************************************************************************)
(* Claims about the event loop (SpecLoop)                                  *)
(***************************************************************************)
\* a finalize request is in flight, waiting for one of its awaits
FinInFlight == fin.pc \in {"fin_readdir", "fin_read", "done"}

\* C19: while the chunk request is waiting for a transcode to finish, a
\* finalize request in flight can take its next step.
C19_TranscodeDoesNotBlock ==
    (chunk.pc = "exec" /\ FinInFlight) => ENABLED LoopFinStep

(***************************************************************************)
(* Claims about file-system failures (SpecFaults)                          *)
(***************************************************************************)
\* a file-system call of the finalize request failed
FinIoFailed(q) == q.readdirFailed \/ q.readFailed \/ q.unlinked # q.removed

\* C20 as stated: no failure of the chunk temp-file write, the transcript
\* append, a transcript read, a transcript unlink or the temp-file unlink
\* turns a request into a failure response.
C20_NoFsFailureAborts ==
    /\ (chunk.pc = "done" /\ chunk.ioFailed \cap {"write", "append", "unlink"} # {})
          => chunk.status = 200
    /\ (fin.pc = "done" /\ FinIoFailed(fin)) => fin.status = 200

\* C20 as amended: a failure of the transcript append, of a transcript
\* listing or read, of a transcript unlink or of the temp-file unlink never
\* turns a request into a failure response; a failure of the chunk
\* temp-file write ends chunk ingestion with the error response.
C20_SwallowedFsFailures ==
    /\ (chunk.pc = "done" /\ chunk.ioFailed \cap {"append", "unlink"} # {})
          => chunk.status = 200
    /\ (chunk.pc = "done" /\ "write" \in chunk.ioFailed) => chunk.status = 500
    /\ (fin.pc = "done" /\ FinIoFailed(fin)) => fin.status = 200

\* the append and the unlink of the temp file both failed and the chunk
\* request was answered with success
C20_Witness ==
    /\ chunk.pc = "done"
    /\ chunk.ioFailed = {"append", "unlink"}
    /\ chunk.status = 200

(***************************************************************************)
(* Claims about the transcript preprocessing (SpecNorm)                    *)
(***************************************************************************)
Range(xs) == {xs[i] : i \in 1..Len(xs)}

\* the header lines of the files that the call read
HeaderLines(q) == {Trim(Header(q.found[k], q.dirIdx)) : k \in 1..Len(q.found)}

\* the lines of the aggregated text that are not file-boundary headers
BodyLines(q) == SelectSeq(q.rawLines, LAMBDA l : l \notin HeaderLines(q))

sUnknownMarker == <<"[","U","n","k","n","o","w","n","]",":"," ">>

\* C21: every line '(chat) Name: message' or 'Name: message' is rewritten
\* to 'Name: message' and Name is a detected participant; the text that is
\* the one line '(chat) Ana: hola a todos' gives the line 'Ana: hola a
\* todos' and the participants {Ana}; no participant is listed twice.
C21_ChatLinesAttributed ==
    AggDone(fin) =>
        /\ \A i \in 1..Len(fin.rawLines) :
             \A prefix \in {<<>>, sChatSp}, name \in ChatNames, msg \in ChatMessages :
                fin.rawLines[i] = prefix \o name \o <<":", " ">> \o msg
                    => /\ fin.normLines[i] = name \o <<":", " ">> \o msg
                       /\ name \in Range(fin.detectedParticipants)
        /\ BodyLines(fin) = <<sChatSp \o sAna \o <<":", " ">> \o sHola>>
              => Range(fin.detectedParticipants) = {sAna}
        /\ \A i, j \in 1..Len(fin.detectedParticipants) :
              fin.detectedParticipants[i] = fin.detectedParticipants[j] => i = j

\* two lines of the same speaker, one of them with the chat marker, have
\* been normalized
C21_Witness ==
    /\ AggDone(fin)
    /\ BodyLines(fin) = <<sChatSp \o sAna \o <<":", " ">> \o sHola, sAna \o <<":", " ">> \o sOk>>
    /\ fin.detectedParticipants = <<sAna>>

\* C22 as stated: a line without a name that is not a file-boundary header
\* is rewritten as '[Unknown]: <line>' and adds no participant; header
\* lines are unchanged.
C22_UnknownMarker ==
    AggDone(fin) =>
        /\ \A i \in 1..Len(fin.rawLines) :
              fin.rawLines[i] \in PlainLines
                  => fin.normLines[i] = sUnknownMarker \o fin.rawLines[i]
        /\ Range(BodyLines(fin)) \subseteq PlainLines => fin.detectedParticipants = <<>>
        /\ \A i \in 1..Len(fin.rawLines) :
              fin.rawLines[i] \in HeaderLines(fin) => fin.normLines[i] = fin.rawLines[i]

\* C22 as amended: a line without a name that is not a file-boundary header
\* is rewritten as '[Desconocido]: <line>' and adds no participant; header
\* lines are unchanged.
C22_DesconocidoMarker ==
    AggDone(fin) =>
        /\ \A i \in 1..Len(fin.rawLines) :
              fin.rawLines[i] \in PlainLines
                  => fin.normLines[i] = sDesconocido \o fin.rawLines[i]
        /\ Range(BodyLines(fin)) \subseteq PlainLines => fin.detectedParticipants = <<>>
        /\ \A i \in 1..Len(fin.rawLines) :
              fin.rawLines[i] \in HeaderLines(fin) => fin.normLines[i] = fin.rawLines[i]

\* the text 'buenas tardes' under its header has been normalized
C22_Witness ==
    /\ AggDone(fin)
    /\ fin.rawLines = <<Trim(Header(LegacyName, 2)), sTardes>>
    /\ fin.normLines = <<Trim(Header(LegacyName, 2)), sDesconocido \o sTardes>>
    /\ fin.detectedParticipants = <<>>

(***************************************************************************)
(* Further claims about the transcription client (SpecTb)                  *)
(***************************************************************************)
\* C23: no transcribeBuffer call ends by falling out of the attempt loop
\* with the error 'Transcription failed after retries'.
C23_LoopNeverFallsThrough == ~chunk.fellOut

\* C27: when transcribeBuffer has returned, retried is true exactly when
\* the call made a second submission, and transcoded is true exactly when
\* the file of the last submission is a wav file that the call transcoded.
C27_FlagsDescribeCall ==
    Returned(chunk) =>
        /\ chunk.retried <=> chunk.submissions >= 2
        /\ chunk.transcoded <=> chunk.sent[Len(chunk.sent)] \in chunk.created

(***************************************************************************)
(* Further claims about the transcript store (Spec)                        *)
(***************************************************************************)
\* C24: a line that chunk ingestion appended for user U is normalized to
\* 'U: <text>' and U is a detected participant.
C24_AppendedLinesAttributed ==
    AggDone(fin) =>
        \A i \in 1..Len(fin.rawLines) :
            \A ms \in 0..clock, u \in UserIds, t \in Transcriptions :
                fin.rawLines[i] = Trim(Entry(ms, u, t))
                    => /\ fin.normLines[i] = u \o <<":", " ">> \o t
                       /\ u \in Range(fin.detectedParticipants)

\* C26: every file of the transcript directory that a finalize call for
\* room R read (and so may delete) holds only lines that chunk ingestion
\* wrote for room R and, when the call names an owner, for that owner.
C26_RoomsIsolated ==
    \A k \in 1..Len(fin.matchingFiles), a \in 1..Len(hist.log) :
        (fin.matchingFiles[k][1] = 1 /\ hist.log[a].name = fin.matchingFiles[k][2])
            => /\ hist.log[a].room = RoomOf(fin.roomId)
               /\ fin.userId # None => hist.log[a].owner = fin.userId

(***************************************************************************)
(* Termination of the transcription client (SpecTbFair)                    *)
(***************************************************************************)
\* the request is inside transcribeBuffer
InTb == chunk.pc \notin {"idle", "write", "append", "summary", "mail", "unlink", "done"}

\* C28: when every submission, every transcoder run and every file-system
\* call returns, a transcribeBuffer call that is in progress eventually
\* ends, by returning a result or by throwing.
C28_CallTerminates == InTb ~> (Returned(chunk) \/ (chunk.pc = "done" /\ chunk.status = 500))

\* a call has ended after two submissions and a retry transcode
C28_Witness ==
    /\ chunk.called /\ ~InTb
    /\ chunk.attempt = 1
    /\ chunk.submissions = 2
    /\ chunk.transcodes = 1

(***************************************************************************)
(* Claims about requests in flight together (SpecRace)                     *)
(***************************************************************************)
\* C25: every line of a file that a finalize call deleted is a line of the
\* text that this call aggregated.
C25_NoLineLost ==
    \A t \in fin.removedText : Range(RawLines(t)) \subseteq Range(RawLines(fin.fullText))

====
